---------------------------- MODULE Spec2Model ----------------------------
(***************************************************************************)
(* Offline-first synchronisation layer of the shop application.            *)
(*                                                                         *)
(*   - useOfflineFirstSupabase (src/src/hooks/useOfflineFirstSupabase.ts): *)
(*     the Entity Cache Controller, its IndexedDB mirror (OfflineFirstDB)  *)
(*     and its online/offline handlers.                          [Spec]    *)
(*   - ModernSalesPage (src/unnamed/part_001, lines 418-1400): the cart    *)
(*     and handleCheckout with its online and offline paths.  [CartSpec]   *)
(*   - the Pending Write Queue, the Connectivity Monitor and the Sync      *)
(*     Reconciler (hooks useOfflineSales and useOfflineManager, whose      *)
(*     source is not part of src/): modelled from spec.md, sections 4.2,   *)
(*     4.4 and 4.5.                              [SalesSpec, SyncSpec]     *)
(*                                                                         *)
(* React semantics used throughout: a handler (or the continuation of an   *)
(* await) runs to its next await without interruption; the state updates   *)
(* it queued are then rendered, and the effects whose dependencies changed *)
(* run, before any other event is handled.  A callback created in render R *)
(* sees the state values of render R (its closure), refs are shared.       *)
(***************************************************************************)
EXTENDS Integers, Sequences, FiniteSets, TLC

(* ------------------------------ bounds -------------------------------- *)
\* number of distinct entity records that can exist in the remote table
MaxRec == 1
\* number of distinct products on sale
MaxProd == 2
\* largest quantity of one product in the cart
MaxQty == 2
\* number of sale rows and pending operations created in one behaviour
MaxOps == 3

\* number of distinct keys (ids) of the records passed to the object store
MaxKey == 2
\* number of distinct payloads a stored record can carry
MaxVal == 2
\* largest number of items passed to one OfflineFirstDB.set
MaxItems == 2

\* largest selling price of a product
MaxPrice == 2
\* largest stock level of a product (-1 stands for an unspecified stock)
MaxStock == 2

Rec == 1..MaxRec
Products == 1..MaxProd

NoUser == "none"
TheUser == "u1"
NoError == "null"
LoadError == "Failed to load data"
NoLoad == [pc |-> "none"]
NoTest == [pc |-> "idle"]
NoResult == [success |-> "none"]

VARIABLES
  user,            \* useAuth().user: NoUser or TheUser
  navOnline,       \* navigator.onLine, the platform's connectivity
  storageOk,       \* IndexedDB can be opened, read and written
  mirror,          \* content of the IndexedDB object store cacheKey
  data,            \* useState data
  loading,         \* useState loading
  error,           \* useState error
  isOnline,        \* useState isOnline
  lastSyncTime,    \* useState lastSyncTime (0 = null)
  initializationRef,
  loadingRef,
  handlerOnline,   \* isOnline as captured by the refresh that handleOnline calls
  loads,           \* the loadData invocations suspended at an await
  attempts,        \* remote reads started since the controller was last idle
  lastCall,        \* how the most recent loadData call returned or suspended
  owed,            \* a reconnect happened and no remote read was started since
  ranOnline,       \* a non-forced loadData has run with isOnline = true
  done,            \* the most recently completed load
  test,            \* the testOffline invocation suspended at an await
  testResult,      \* the TestResult last returned by testOffline
  cart,            \* useState cart: sequence of CartItem (a Product and a quantity)
  selectedCustomerId, \* useState selectedCustomerId
  isProcessingCheckout,
  checkout,        \* the handleCheckout invocation suspended at an await;
                   \* rows: the sale numbers it has inserted or enqueued
  checkoutResult,  \* the toast of the last handleCheckout
  queue,           \* Pending Write Queue: sequence of Pending Operations
  nextId,          \* next sale number / temporary identifier
  applied,         \* per sale number: how many rows the remote system holds
  written,         \* sale numbers of the sales written while offline
  drain,           \* the drain in flight, or the outcome of the last one
  sale,            \* what the last completed sale wrote: rows and stock
  objectStore,     \* one IndexedDB object store: set of records, keyPath id
  dbCall           \* the OfflineFirstDB call that settled last

ctlVars == <<storageOk, mirror, data, loading, error,
             isOnline, lastSyncTime, initializationRef, loadingRef, handlerOnline,
             loads, attempts, lastCall, owed, ranOnline, done, test, testResult>>

salesVars == <<cart, selectedCustomerId, isProcessingCheckout, checkout, checkoutResult,
               queue, nextId, applied, written, drain, sale>>

dbVars == <<objectStore, dbCall>>

vars == <<user, navOnline, ctlVars, salesVars, dbVars>>

(* ---------------- the hook's state as one record ----------------------- *)
Cur ==
  [data |-> data, loading |-> loading, error |-> error, isOnline |-> isOnline,
   lastSyncTime |-> lastSyncTime, initializationRef |-> initializationRef,
   loadingRef |-> loadingRef, loads |-> loads, attempts |-> attempts,
   lastCall |-> lastCall, owed |-> owed, ranOnline |-> ranOnline,
   done |-> done]

Commit(s) ==
  /\ data' = s.data
  /\ loading' = s.loading
  /\ error' = s.error
  /\ isOnline' = s.isOnline
  /\ lastSyncTime' = s.lastSyncTime
  /\ initializationRef' = s.initializationRef
  /\ loadingRef' = s.loadingRef
  /\ loads' = s.loads
  /\ attempts' = s.attempts
  /\ lastCall' = s.lastCall
  /\ owed' = s.owed
  /\ ranOnline' = s.ranOnline
  /\ done' = s.done

\* new Date(): a timestamp different from the one currently held
Now(prev) == IF prev = 1 THEN 2 ELSE 1

RemoveAt(q, i) == SubSeq(q, 1, i - 1) \o SubSeq(q, i + 1, Len(q))

(* ------------------------------ loadData ------------------------------- *)
\* the guard of line 146 left out
LoadInProgressIgnored(s) == FALSE

\* line 146: the in-flight guard
LoadInProgress(s) == s.loadingRef

\* line 165 without the isOnline conjunct
WantsRemoteOffline(s, forceRefresh, cOnline) ==
  forceRefresh \/ ~s.initializationRef

\* line 165 without the first-load flag: every online load reads remotely
WantsRemoteEveryLoad(s, forceRefresh, cOnline) == cOnline

\* line 165: does this call go to the remote system?
WantsRemote(s, forceRefresh, cOnline) ==
  cOnline /\ (forceRefresh \/ ~s.initializationRef)

\* lines 151-157 without setData([])
NoUserResetKeepsData(s) ==
  [s EXCEPT !.loading = FALSE, !.error = NoError,
            !.lastCall = "nouser", !.done = NoLoad]

\* lines 151-157: no user, the served state is reset
NoUserReset(s) ==
  [s EXCEPT !.data = {}, !.loading = FALSE, !.error = NoError,
            !.lastCall = "nouser", !.done = NoLoad]

\* loadData(forceRefresh) up to its first await, called through a closure
\* that holds user = cUser and isOnline = cOnline.
LoadData(s, forceRefresh, cUser, cOnline, from) ==
  IF LoadInProgress(s)
    THEN [s EXCEPT !.lastCall = "skipped"]
  ELSE IF cUser = NoUser
    THEN NoUserReset(s)
  ELSE LET remote == WantsRemote(s, forceRefresh, cOnline)
       IN [s EXCEPT !.loadingRef = TRUE, !.loading = TRUE,
                    !.loads = Append(@, [pc |-> IF remote THEN "remote" ELSE "cache",
                                         force |-> forceRefresh,
                                         online |-> cOnline,
                                         from |-> from,
                                         first |-> ~forceRefresh /\ cOnline /\ ~s.ranOnline,
                                         remote |-> IF remote THEN "pending" ELSE "none",
                                         res |-> {},
                                         old |-> mirror]),
                    !.attempts = IF remote THEN @ + 1 ELSE @,
                    !.owed = IF remote THEN FALSE ELSE @,
                    !.ranOnline = @ \/ (~forceRefresh /\ cOnline),
                    !.lastCall = "started", !.done = NoLoad]

\* lines 247-250
Refresh(s, cUser, cOnline, from) == LoadData(s, TRUE, cUser, cOnline, from)

\* lines 239-244: the initial-load effect, re-run when loadData changes
\* identity (its dependencies user or isOnline changed).
InitialLoadEffect(s, changed, cUser) ==
  IF changed /\ ~s.initializationRef
    THEN LoadData(s, FALSE, cUser, s.isOnline, "effect")
    ELSE s

(* ----------------------- completion of a load -------------------------- *)
\* a finally block that also stamps the last-sync time
FinallyStampsSync(s, i, result, toast) ==
  [s EXCEPT !.loading = FALSE,
            !.loadingRef = FALSE,
            !.lastSyncTime = Now(@),
            !.loads = RemoveAt(@, i),
            !.attempts = IF Len(s.loads) = 1 THEN 0 ELSE @,
            !.done = [pc |-> "done", result |-> result, toast |-> toast,
                      force |-> s.loads[i].force, online |-> s.loads[i].online,
                      remote |-> s.loads[i].remote,
                      res |-> s.loads[i].res, old |-> s.loads[i].old]]

\* a finally block that leaves the in-flight flag set
FinallyKeepsFlag(s, i, result, toast) ==
  [s EXCEPT !.loading = FALSE,
            !.loads = RemoveAt(@, i),
            !.attempts = IF Len(s.loads) = 1 THEN 0 ELSE @,
            !.done = [pc |-> "done", result |-> result, toast |-> toast,
                      force |-> s.loads[i].force, online |-> s.loads[i].online,
                      remote |-> s.loads[i].remote,
                      res |-> s.loads[i].res, old |-> s.loads[i].old]]

\* lines 232-235 (finally) for the load at position i, which ended with
\* the given result; toast tells whether lines 225-231 raised the toast.
Finally(s, i, result, toast) ==
  [s EXCEPT !.loading = FALSE,
            !.loadingRef = FALSE,
            !.loads = RemoveAt(@, i),
            !.attempts = IF Len(s.loads) = 1 THEN 0 ELSE @,
            !.done = [pc |-> "done", result |-> result, toast |-> toast,
                      force |-> s.loads[i].force, online |-> s.loads[i].online,
                      remote |-> s.loads[i].remote,
                      res |-> s.loads[i].res, old |-> s.loads[i].old]]

\* lines 267-278: testOffline resumes when the loadData it awaited settles:
\* it restores isOnline to the value of its closure and returns success.
\* ran tells whether that loadData went past its guards (lines 146-157).
TestResume(s, cached, ran) ==
  LET s1 == [s EXCEPT !.isOnline = test.online]
  IN /\ Commit(InitialLoadEffect(s1, s1.isOnline # isOnline, user))
     /\ test' = NoTest
     /\ testResult' = [success |-> TRUE, cacheSize |-> cached, loaded |-> ran]

\* the state after the load at position i has run its finally block
Settle(s, i) ==
  IF loads[i].from = "test"
    THEN TestResume(s, test.cached, TRUE)
    ELSE Commit(s) /\ UNCHANGED <<test, testResult>>

Env == <<user, navOnline, storageOk, handlerOnline>>

\* line 169 resolves: loadFromSupabase returned the set S, the remote
\* table as it is at that moment (other devices write to it as well)
RemoteReadOk(i, S) ==
  /\ UNCHANGED <<salesVars, dbVars>>
  /\ loads[i].pc = "remote"
  /\ navOnline
  /\ loads' = [loads EXCEPT ![i].pc = "set", ![i].remote = "ok", ![i].res = S]
  /\ UNCHANGED <<Env, mirror, data, loading, error, isOnline, lastSyncTime,
                 initializationRef, loadingRef, attempts, lastCall, owed, ranOnline, done, test, testResult>>

\* line 169 rejects: lines 181-185, the fallback read is issued
RemoteReadFail(i) ==
  /\ UNCHANGED <<salesVars, dbVars>>
  /\ loads[i].pc = "remote"
  /\ loads' = [loads EXCEPT ![i].pc = "fallback", ![i].remote = "fail"]
  /\ UNCHANGED <<Env, mirror, data, loading, error, isOnline, lastSyncTime,
                 initializationRef, loadingRef, attempts, lastCall, owed, ranOnline, done, test, testResult>>

\* a set that leaves out store.clear() of line 47
DBSetMerge(store, items) == store \cup items

\* OfflineFirstDB.set, lines 38-55: one readwrite transaction that clears
\* the store and puts every item; it commits as a whole or not at all.
DBSet(store, items) == items

\* line 173 settles.  Resolved: lines 176-178, 209, finally.
\* Rejected: lines 181-185, the fallback read is issued.
SetSettles(i) ==
  /\ UNCHANGED <<salesVars, dbVars>>
  /\ loads[i].pc = "set"
  /\ IF storageOk
       THEN /\ mirror' = DBSet(mirror, loads[i].res)
            /\ Settle(Finally([Cur EXCEPT !.data = loads[i].res,
                                          !.error = NoError,
                                          !.lastSyncTime = Now(@),
                                          !.initializationRef = TRUE],
                               i, "synced", FALSE), i)
       ELSE /\ loads' = [loads EXCEPT ![i].pc = "fallback"]
            /\ UNCHANGED <<mirror, data, loading, error, isOnline, lastSyncTime,
                           initializationRef, loadingRef, attempts, lastCall, owed, ranOnline,
                           done, test, testResult>>
  /\ UNCHANGED Env

\* a cache read (line 185 or line 198) settles.  Resolved: lines 188-189
\* or 201-202, then 209 and finally.  Rejected: outer catch, line 212 sets
\* the error and line 216 issues the last-resort read.
CacheReadSettles(i, at, result) ==
  /\ UNCHANGED <<salesVars, dbVars>>
  /\ loads[i].pc = at
  /\ IF storageOk
       THEN Settle(Finally([Cur EXCEPT !.data = mirror,
                                      !.error = NoError,
                                      !.initializationRef = TRUE],
                           i, result, FALSE), i)
       ELSE /\ loads' = [loads EXCEPT ![i].pc = "last"]
            /\ error' = LoadError
            /\ UNCHANGED <<data, loading, isOnline, lastSyncTime,
                           initializationRef, loadingRef, attempts, lastCall, owed, ranOnline,
                           done, test, testResult>>
  /\ UNCHANGED <<Env, mirror>>

\* lines 185-189 with the error of the remote read kept (no line 189)
FallbackGetKeepsError(i) ==
  /\ UNCHANGED <<salesVars, dbVars>>
  /\ loads[i].pc = "fallback"
  /\ storageOk
  /\ Settle(Finally([Cur EXCEPT !.data = mirror,
                                !.error = LoadError,
                                !.initializationRef = TRUE],
                     i, "fallback", FALSE), i)
  /\ UNCHANGED <<Env, mirror>>

\* lines 185-189
FallbackGet(i) == CacheReadSettles(i, "fallback", "fallback")

\* lines 198-202
CacheGet(i) == CacheReadSettles(i, "cache", "cached")

\* line 216 settles: lines 217 or 221, the toast of lines 225-231, finally
LastResortGet(i) ==
  /\ UNCHANGED <<salesVars, dbVars>>
  /\ loads[i].pc = "last"
  /\ Settle(Finally([Cur EXCEPT !.data = IF storageOk THEN mirror ELSE {}],
                    i, "error", loads[i].online), i)
  /\ UNCHANGED <<Env, mirror>>

LoadStep ==
  \E i \in 1..Len(loads) :
    \/ \E S \in SUBSET Rec : RemoteReadOk(i, S)
    \/ RemoteReadFail(i)
    \/ SetSettles(i)
    \/ FallbackGet(i)
    \/ CacheGet(i)
    \/ LastResortGet(i)

(* --------------------------- event handlers ---------------------------- *)
\* lines 122-128, then the render with isOnline = true and its effects
OnlineListener ==
  /\ ~navOnline
  /\ navOnline' = TRUE
  /\ LET s1 == [Cur EXCEPT !.isOnline = TRUE, !.owed = (user # NoUser)]
         s2 == IF user # NoUser /\ ~s1.loadingRef
                 THEN Refresh(s1, user, handlerOnline, "online")
                 ELSE s1
     IN Commit(InitialLoadEffect(s2, ~isOnline, user))
  /\ UNCHANGED <<user, storageOk, handlerOnline, mirror, test, testResult>>

\* the 'online' event with handleOnline as its listener
HandleOnline == OnlineListener /\ UNCHANGED <<salesVars, dbVars>>

\* lines 130-133, then the render with isOnline = false and its effects
HandleOffline ==
  /\ UNCHANGED <<salesVars, dbVars>>
  /\ navOnline
  /\ navOnline' = FALSE
  /\ Commit(InitialLoadEffect([Cur EXCEPT !.isOnline = FALSE, !.owed = FALSE],
                              isOnline, user))
  /\ UNCHANGED <<user, storageOk, handlerOnline, mirror, test, testResult>>

\* useAuth().user changes: the render re-subscribes the listeners
\* (lines 121-142, dependency user) and re-runs the initial-load effect
UserChanges(u) ==
  /\ UNCHANGED <<salesVars, dbVars>>
  /\ user # u
  /\ user' = u
  /\ handlerOnline' = isOnline
  /\ Commit(InitialLoadEffect([Cur EXCEPT !.owed = FALSE], TRUE, u))
  /\ UNCHANGED <<navOnline, storageOk, mirror, test, testResult>>

SignIn == UserChanges(TheUser)

SignOut == UserChanges(NoUser)

\* the caller invokes the refresh returned by the latest render
ManualRefresh ==
  /\ UNCHANGED <<salesVars, dbVars>>
  /\ Commit(Refresh(Cur, user, isOnline, "refresh"))
  /\ UNCHANGED <<Env, mirror, test, testResult>>

(* ----------------------------- testOffline ----------------------------- *)
\* lines 253-258: testOffline is called and suspends at the cache read
TestOfflineCall ==
  /\ UNCHANGED <<salesVars, dbVars>>
  /\ test.pc = "idle"
  /\ test' = [pc |-> "get", online |-> isOnline, user |-> user, cached |-> 0]
  /\ testResult' = NoResult
  /\ UNCHANGED <<Env, mirror, data, loading, error, isOnline, lastSyncTime,
                 initializationRef, loadingRef, loads, attempts, lastCall, owed, ranOnline,
                 done>>

\* line 258 settles.  Rejected: lines 279-290.  Resolved: lines 261-265,
\* setIsOnline(false) and loadData(false) of the closure; when that call
\* returns without suspending, lines 268-278 follow in the same turn.
TestOfflineGet ==
  /\ UNCHANGED <<salesVars, dbVars>>
  /\ test.pc = "get"
  /\ IF ~storageOk
       THEN /\ test' = NoTest
            /\ testResult' = [success |-> FALSE]
            /\ UNCHANGED <<data, loading, error, isOnline, lastSyncTime,
                           initializationRef, loadingRef, loads, attempts,
                           lastCall, owed, ranOnline, done>>
       ELSE LET s1 == [Cur EXCEPT !.isOnline = FALSE]
                s2 == LoadData(s1, FALSE, test.user, test.online, "test")
            IN IF s2.lastCall = "started"
                 THEN /\ Commit(InitialLoadEffect(s2, isOnline, user))
                      /\ test' = [test EXCEPT !.pc = "load", !.cached = Cardinality(mirror)]
                      /\ UNCHANGED testResult
                 ELSE TestResume(s2, Cardinality(mirror), FALSE)
  /\ UNCHANGED <<Env, mirror>>

(* ----------------------------- environment ----------------------------- *)
\* the durable storage becomes unavailable (quota, disabled) or available
StorageChange ==
  /\ UNCHANGED <<salesVars, dbVars>>
  /\ storageOk' = ~storageOk
  /\ UNCHANGED <<user, navOnline, handlerOnline, mirror, data, loading,
                 error, isOnline, lastSyncTime, initializationRef, loadingRef,
                 loads, attempts, lastCall, owed, ranOnline, done, test, testResult>>


(* --------------------- ModernSalesPage: the cart ----------------------- *)
NoCustomer == "null"
Customers == {"c1"}
PaymentMethods == {"cash", "mpesa", "debt"}
EntityTypes == {"sales", "customers"}
NoCheckout == [pc |-> "idle"]
NoSale == [path |-> "none"]
NoDrain == [pc |-> "idle", halted |-> {}, op |-> 0, ran |-> FALSE]

\* the Product rows the page can show; the sales specifications sell the
\* products at one price and one stock level
Product == [id : Products, sellingPrice : 1..MaxPrice, currentStock : (-1)..MaxStock]
Listed(p) == [id |-> p, sellingPrice |-> 1, currentStock |-> 1]

InCart(c, productId) == \E i \in 1..Len(c) : c[i].id = productId

\* part_001 lines 481-490 (the confirm of lines 476-479 not declined)
addToCart(c, product) ==
  IF InCart(c, product.id)
    THEN [i \in 1..Len(c) |->
            IF c[i].id = product.id THEN [c[i] EXCEPT !.quantity = @ + 1] ELSE c[i]]
    ELSE Append(c, [id |-> product.id, sellingPrice |-> product.sellingPrice,
                    currentStock |-> product.currentStock, quantity |-> 1])

\* part_001 lines 493-496
removeFromCart(c, productId) == SelectSeq(c, LAMBDA item : item.id # productId)

\* an updateQuantity that stores whatever quantity it is given
updateQuantityStores(c, productId, newQuantity) ==
  [i \in 1..Len(c) |->
     IF c[i].id = productId THEN [c[i] EXCEPT !.quantity = newQuantity] ELSE c[i]]

\* part_001 lines 498-508
updateQuantity(c, productId, newQuantity) ==
  IF newQuantity <= 0
    THEN removeFromCart(c, productId)
    ELSE [i \in 1..Len(c) |->
            IF c[i].id = productId THEN [c[i] EXCEPT !.quantity = newQuantity] ELSE c[i]]

\* part_001 lines 510-512
clearCart(c) == <<>>

PageFrame == <<user, navOnline, ctlVars, dbVars>>
SalesFrame == <<PageFrame, sale>>

AddToCart(product) ==
  /\ \A i \in 1..Len(cart) : cart[i].id = product.id => cart[i].quantity < MaxQty
  /\ cart' = addToCart(cart, product)
  /\ UNCHANGED <<SalesFrame, selectedCustomerId, isProcessingCheckout, checkout,
                 checkoutResult, queue, nextId, applied, written, drain>>

(* ------------------- ModernSalesPage: handleCheckout ------------------- *)
\* part_001 lines 926 and 1045: a customer is selected or deselected
SelectCustomer(c) ==
  /\ c # selectedCustomerId
  /\ selectedCustomerId' = c
  /\ UNCHANGED <<SalesFrame, cart, isProcessingCheckout, checkout, checkoutResult,
                 queue, nextId, applied, written, drain>>

\* part_001 line 990: the button that calls handleCheckout is disabled
CheckoutDisabled(paymentMethod) ==
  \/ isProcessingCheckout
  \/ checkout.pc # "idle"
  \/ (paymentMethod = "debt" /\ selectedCustomerId = NoCustomer)

\* part_001 lines 515-541: the toast of the early return that applies
Rejection(paymentMethod) ==
  IF cart = <<>> THEN "Error"
  ELSE IF paymentMethod = "debt" /\ selectedCustomerId = NoCustomer
    THEN "Customer Required"
  ELSE IF user = NoUser THEN "Authentication Error"
  ELSE "none"

\* a handleCheckout whose early returns also empty the cart
HandleCheckoutClears(paymentMethod) ==
  /\ ~isProcessingCheckout /\ checkout.pc = "idle"
  /\ nextId + Len(cart) - 1 <= MaxOps
  /\ IF Rejection(paymentMethod) # "none"
       THEN /\ checkoutResult' = Rejection(paymentMethod)
            /\ cart' = clearCart(cart)
            /\ UNCHANGED <<isProcessingCheckout, checkout>>
       ELSE /\ isProcessingCheckout' = TRUE
            /\ checkout' = [pc |-> IF navOnline THEN "insert" ELSE "enqueue",
                            items |-> cart, k |-> 1, rows |-> {},
                            paymentMethod |-> paymentMethod,
                            customerId |-> selectedCustomerId,
                            online |-> navOnline]
            /\ checkoutResult' = "none"
            /\ cart' = cart
  /\ UNCHANGED <<SalesFrame, selectedCustomerId, queue, nextId, applied, written, drain>>

\* part_001 lines 514-555: handleCheckout up to its first await.  It is
\* called at most once at a time (the first two disjuncts of line 990); its
\* own checks of lines 515-541 decide whether it goes on.
HandleCheckout(paymentMethod) ==
  /\ ~isProcessingCheckout /\ checkout.pc = "idle"
  /\ nextId + Len(cart) - 1 <= MaxOps
  /\ IF Rejection(paymentMethod) # "none"
       THEN /\ checkoutResult' = Rejection(paymentMethod)
            /\ UNCHANGED <<isProcessingCheckout, checkout>>
       ELSE /\ isProcessingCheckout' = TRUE
            /\ checkout' = [pc |-> IF navOnline THEN "insert" ELSE "enqueue",
                            items |-> cart, k |-> 1, rows |-> {},
                            paymentMethod |-> paymentMethod,
                            customerId |-> selectedCustomerId,
                            online |-> navOnline]
            /\ checkoutResult' = "none"
  /\ UNCHANGED <<SalesFrame, cart, selectedCustomerId, queue, nextId, applied, written, drain>>

\* part_001 lines 557-565 and 573-575: the sale succeeded
CheckoutSucceeds ==
  /\ cart' = clearCart(cart)
  /\ selectedCustomerId' = NoCustomer
  /\ checkoutResult' = "success"
  /\ isProcessingCheckout' = FALSE
  /\ checkout' = NoCheckout

\* part_001 lines 567-575: the sale threw
CheckoutFails ==
  /\ cart' = cart
  /\ selectedCustomerId' = selectedCustomerId
  /\ checkoutResult' = "failed"
  /\ isProcessingCheckout' = FALSE
  /\ checkout' = NoCheckout

\* Pending Write Queue, enqueue(entityType, payload): appends a Pending
\* Operation with a fresh temporary identifier (spec.md section 4.4); the
\* payload is the sale row with that number
Enqueue(q, entityType, tmpId) ==
  Append(q, [id |-> tmpId, type |-> entityType])

\* a processOfflineSale that passes every cart item to the queue twice
OfflineEnqueueTwice ==
  /\ checkout.pc = "enqueue"
  /\ queue' = Enqueue(Enqueue(queue, "sales", nextId), "sales", nextId)
  /\ nextId' = nextId + 1
  /\ written' = written \cup {nextId}
  /\ IF checkout.k = Len(checkout.items)
       THEN CheckoutSucceeds
       ELSE /\ checkout' = [checkout EXCEPT !.k = @ + 1, !.rows = @ \cup {nextId}]
            /\ UNCHANGED <<cart, selectedCustomerId, checkoutResult, isProcessingCheckout>>
  /\ UNCHANGED <<SalesFrame, applied, drain>>

\* part_001 lines 650-672: one turn of the loop of processOfflineSale, the
\* createOfflineSale of cart item k; after the last item handleCheckout
\* continues at line 557
OfflineEnqueue ==
  /\ checkout.pc = "enqueue"
  /\ queue' = Enqueue(queue, "sales", nextId)
  /\ nextId' = nextId + 1
  /\ written' = written \cup {nextId}
  /\ IF checkout.k = Len(checkout.items)
       THEN CheckoutSucceeds
       ELSE /\ checkout' = [checkout EXCEPT !.k = @ + 1, !.rows = @ \cup {nextId}]
            /\ UNCHANGED <<cart, selectedCustomerId, checkoutResult, isProcessingCheckout>>
  /\ UNCHANGED <<SalesFrame, applied, drain>>

\* a processOnlineSale that also queues the rows it has inserted
InsertAckEnqueues ==
  /\ checkout.pc = "insert"
  /\ navOnline
  /\ LET n == Len(checkout.items)
     IN /\ applied' = [id \in 1..MaxOps |->
                         IF id >= nextId /\ id < nextId + n THEN 1 ELSE applied[id]]
        /\ nextId' = nextId + n
  /\ checkout' = [checkout EXCEPT !.pc = IF checkout.customerId # NoCustomer
                                           THEN "customer" ELSE "stock",
                                  !.rows = nextId..(nextId + Len(checkout.items) - 1)]
  /\ queue' = Enqueue(queue, "sales", nextId)
  /\ UNCHANGED <<SalesFrame, cart, selectedCustomerId, checkoutResult, isProcessingCheckout,
                 written, drain>>

\* part_001 lines 602-629: the insert of the sale rows is acknowledged
InsertAck ==
  /\ checkout.pc = "insert"
  /\ navOnline
  /\ LET n == Len(checkout.items)
     IN /\ applied' = [id \in 1..MaxOps |->
                         IF id >= nextId /\ id < nextId + n THEN 1 ELSE applied[id]]
        /\ nextId' = nextId + n
  /\ checkout' = [checkout EXCEPT !.pc = IF checkout.customerId # NoCustomer
                                           THEN "customer" ELSE "stock",
                                  !.rows = nextId..(nextId + Len(checkout.items) - 1)]
  /\ UNCHANGED <<SalesFrame, cart, selectedCustomerId, checkoutResult, isProcessingCheckout,
                 queue, written, drain>>

\* a processOnlineSale that queues the rejected sale for a retry
InsertFailEnqueues ==
  /\ checkout.pc = "insert"
  /\ CheckoutFails
  /\ nextId <= MaxOps
  /\ queue' = Enqueue(queue, "sales", nextId)
  /\ nextId' = nextId + 1
  /\ UNCHANGED <<SalesFrame, applied, written, drain>>

\* part_001 lines 606-608: the insert returned an error
InsertFail ==
  /\ checkout.pc = "insert"
  /\ CheckoutFails
  /\ UNCHANGED <<SalesFrame, queue, nextId, applied, written, drain>>

\* part_001 lines 616 or 625: updateCustomer resolved
CustomerUpdated ==
  /\ checkout.pc = "customer"
  /\ checkout' = [checkout EXCEPT !.pc = "stock"]
  /\ UNCHANGED <<SalesFrame, cart, selectedCustomerId, checkoutResult, isProcessingCheckout,
                 queue, nextId, applied, written, drain>>

\* part_001 lines 616 or 625: updateCustomer rejected
CustomerUpdateThrows ==
  /\ checkout.pc = "customer"
  /\ CheckoutFails
  /\ UNCHANGED <<SalesFrame, queue, nextId, applied, written, drain>>

\* part_001 lines 632-644: the stock writes, whose errors are ignored
StockUpdated ==
  /\ checkout.pc = "stock"
  /\ CheckoutSucceeds
  /\ UNCHANGED <<SalesFrame, queue, nextId, applied, written, drain>>

\* useAuth().user changes on the sales page
SessionChanges ==
  /\ user' = IF user = NoUser THEN TheUser ELSE NoUser
  /\ UNCHANGED <<navOnline, ctlVars, salesVars, dbVars>>

(* ------- Pending Write Queue, Connectivity Monitor, Reconciler --------- *)
\* a mutation of the given entity type made while offline is enqueued
EnqueueOffline(entityType) ==
  /\ ~navOnline
  /\ user # NoUser
  /\ checkout.pc = "idle"
  /\ nextId <= MaxOps
  /\ queue' = Enqueue(queue, entityType, nextId)
  /\ nextId' = nextId + 1
  /\ UNCHANGED <<SalesFrame, cart, selectedCustomerId, isProcessingCheckout, checkout,
                 checkoutResult, applied, written, drain>>

\* the entity type of the queued operation with the given identifier
TypeOf(q, tmpId) == q[CHOOSE i \in 1..Len(q) : q[i].id = tmpId].type

\* a drain that goes on with an entity type after a failed submission
EligibleAll(q, d) == q

\* the queued operations a drain may still submit, in queue order
Eligible(q, d) == SelectSeq(q, LAMBDA o : o.type \notin d.halted)

\* drain() starts unless a drain is in flight (spec.md 4.4, invariant)
StartDrain(d) ==
  IF d.pc = "idle"
    THEN [pc |-> "run", halted |-> {}, op |-> 0, ran |-> TRUE]
    ELSE d

\* Connectivity Monitor: went-online, which triggers the reconciler
MonitorOnline ==
  /\ ~navOnline
  /\ navOnline' = TRUE
  /\ drain' = StartDrain(drain)
  /\ UNCHANGED <<cart, selectedCustomerId, isProcessingCheckout, checkout, checkoutResult,
                 queue, nextId, applied, written, sale>>

WentOnline == MonitorOnline /\ UNCHANGED <<user, ctlVars, dbVars>>

\* Connectivity Monitor: went-offline
WentOffline ==
  /\ navOnline
  /\ navOnline' = FALSE
  /\ UNCHANGED <<user, ctlVars, salesVars, dbVars>>

\* explicit user action "retry sync"
RetrySync ==
  /\ drain.pc = "idle"
  /\ drain' = StartDrain(drain)
  /\ UNCHANGED <<SalesFrame, cart, selectedCustomerId, isProcessingCheckout, checkout,
                 checkoutResult, queue, nextId, applied, written>>

\* drain submits the first queued operation it may still submit
DrainSubmit ==
  /\ drain.pc = "run"
  /\ Eligible(queue, drain) # <<>>
  /\ drain' = [drain EXCEPT !.pc = "wait", !.op = Head(Eligible(queue, drain)).id]
  /\ UNCHANGED <<SalesFrame, cart, selectedCustomerId, isProcessingCheckout, checkout,
                 checkoutResult, queue, nextId, applied, written>>

\* the remote system acknowledged the write: the operation is removed
DrainAck ==
  /\ drain.pc = "wait"
  /\ navOnline
  /\ applied' = [applied EXCEPT ![drain.op] = @ + 1]
  /\ queue' = SelectSeq(queue, LAMBDA o : o.id # drain.op)
  /\ drain' = [drain EXCEPT !.pc = "run", !.op = 0]
  /\ UNCHANGED <<SalesFrame, cart, selectedCustomerId, isProcessingCheckout, checkout,
                 checkoutResult, nextId, written>>

\* a drain that discards the operation whose submission failed
DrainFailDiscards ==
  /\ drain.pc = "wait"
  /\ queue' = SelectSeq(queue, LAMBDA o : o.id # drain.op)
  /\ drain' = [drain EXCEPT !.pc = "run", !.op = 0,
                            !.halted = @ \cup {TypeOf(queue, drain.op)}]
  /\ UNCHANGED <<SalesFrame, cart, selectedCustomerId, isProcessingCheckout, checkout,
                 checkoutResult, nextId, applied, written>>

\* the submission failed: the operation stays queued and draining halts
\* for its entity type
DrainFail ==
  /\ drain.pc = "wait"
  /\ drain' = [drain EXCEPT !.pc = "run", !.op = 0,
                            !.halted = @ \cup {TypeOf(queue, drain.op)}]
  /\ UNCHANGED <<SalesFrame, cart, selectedCustomerId, isProcessingCheckout, checkout,
                 checkoutResult, queue, nextId, applied, written>>

\* nothing is left that the drain may submit
DrainDone ==
  /\ drain.pc = "run"
  /\ Eligible(queue, drain) = <<>>
  /\ drain' = [drain EXCEPT !.pc = "idle"]
  /\ UNCHANGED <<cart, selectedCustomerId, isProcessingCheckout, checkout, checkoutResult,
                 queue, nextId, applied, written, sale>>

DrainEnd == DrainDone /\ UNCHANGED <<user, navOnline, ctlVars, dbVars>>

(* ----------------------- the sales page alone -------------------------- *)
SalesInit ==
  /\ cart = <<>>
  /\ sale = NoSale
  /\ selectedCustomerId = NoCustomer
  /\ isProcessingCheckout = FALSE
  /\ checkout = NoCheckout
  /\ checkoutResult = "none"
  /\ queue = <<>>
  /\ nextId = 1
  /\ applied = [id \in 1..MaxOps |-> 0]
  /\ written = {}
  /\ drain = NoDrain

(* ------------------- OfflineFirstDB: one object store ------------------ *)
Payloads == 1..MaxVal
Keys == 1..MaxKey
Records == [id : Keys, v : Payloads]
NoCall == [op |-> "none"]

\* the sequences of records of length at most n
RECURSIVE SeqsUpTo(_)
SeqsUpTo(n) ==
  IF n = 0 THEN {<<>>}
  ELSE LET shorter == SeqsUpTo(n - 1)
       IN shorter \cup {Append(q, r) : q \in {t \in shorter : Len(t) = n - 1}, r \in Records}

Elements(q) == {q[i] : i \in 1..Len(q)}

UniqueIds(q) == \A i, j \in 1..Len(q) : q[i].id = q[j].id => i = j

\* a set that does not clear the store first
StoreClearKeeps(store) == store

\* line 47: store.clear()
StoreClear(store) == {}

\* line 50: store.put(item) adds the record, or replaces the one that has
\* the same key (keyPath id, line 31)
StorePut(store, item) == {r \in store : r.id # item.id} \cup {item}

\* line 50: data.forEach(item => store.put(item))
RECURSIVE PutEach(_, _)
PutEach(store, items) ==
  IF items = <<>> THEN store
  ELSE PutEach(StorePut(store, Head(items)), Tail(items))

\* lines 43-52: the content of the store when the transaction completes
DBSetAll(store, items) == PutEach(StoreClear(store), items)

\* lines 62-66: store.getAll()
DBGetAll(store) == store

\* OfflineFirstDB.set(storeName, data) settles: resolved when the
\* transaction completed, rejected (store as before) when the storage is
\* unavailable
OfflineDBSet(items) ==
  /\ objectStore' = IF storageOk THEN DBSetAll(objectStore, items) ELSE objectStore
  /\ dbCall' = [op |-> "set", ok |-> storageOk, items |-> items, before |-> objectStore]
  /\ UNCHANGED <<user, navOnline, ctlVars, salesVars>>

\* OfflineFirstDB.get(storeName) settles
OfflineDBGet ==
  /\ dbCall.op = "set"
  /\ dbCall' = [op |-> "get", ok |-> storageOk, items |-> dbCall.items,
                before |-> dbCall.before, set |-> dbCall.ok,
                result |-> IF storageOk THEN DBGetAll(objectStore) ELSE {}]
  /\ UNCHANGED <<objectStore, user, navOnline, ctlVars, salesVars>>

\* the storage becomes unavailable or available between two calls
DBStorageChange ==
  /\ storageOk' = ~storageOk
  /\ UNCHANGED <<user, navOnline, handlerOnline, mirror, data, loading,
                 error, isOnline, lastSyncTime, initializationRef, loadingRef,
                 loads, attempts, lastCall, owed, ranOnline, done, test, testResult,
                 salesVars, dbVars>>

\* no call of the store under test has been made
DBIdle ==
  /\ objectStore = {}
  /\ dbCall = NoCall

(* ------------------------------ the system ----------------------------- *)
\* lines 109-118 and the effects of the first render (lines 121, 239)
CtlInit ==
  /\ user \in {NoUser, TheUser}
  /\ navOnline \in BOOLEAN
  /\ storageOk \in BOOLEAN
  /\ mirror \in SUBSET Rec
  /\ isOnline = navOnline
  /\ handlerOnline = navOnline
  /\ lastSyncTime = 0
  /\ initializationRef = FALSE
  /\ test = NoTest
  /\ testResult = NoResult
  /\ LET s0 == [data |-> {}, loading |-> TRUE, error |-> NoError,
                isOnline |-> navOnline, lastSyncTime |-> 0,
                initializationRef |-> FALSE, loadingRef |-> FALSE,
                loads |-> <<>>, attempts |-> 0, lastCall |-> "none",
                owed |-> FALSE, ranOnline |-> FALSE, done |-> NoLoad]
         s1 == LoadData(s0, FALSE, user, navOnline, "effect")
     IN /\ data = s1.data
        /\ loading = s1.loading
        /\ error = s1.error
        /\ loadingRef = s1.loadingRef
        /\ loads = s1.loads
        /\ attempts = s1.attempts
        /\ lastCall = s1.lastCall
        /\ owed = s1.owed
        /\ ranOnline = s1.ranOnline
        /\ done = s1.done

Next ==
  \/ LoadStep
  \/ HandleOnline
  \/ HandleOffline
  \/ SignIn
  \/ SignOut
  \/ ManualRefresh
  \/ TestOfflineCall
  \/ TestOfflineGet
  \/ StorageChange

Init == CtlInit /\ SalesInit /\ DBIdle

Spec == Init /\ [][Next]_vars

\* the sales page with the queue, the controller left out
SalesPageInit ==
  /\ user \in {NoUser, TheUser}
  /\ navOnline \in BOOLEAN
  /\ storageOk = TRUE
  /\ mirror = {}
  /\ data = {}
  /\ loading = FALSE
  /\ error = NoError
  /\ isOnline = navOnline
  /\ lastSyncTime = 0
  /\ initializationRef = FALSE
  /\ loadingRef = FALSE
  /\ handlerOnline = navOnline
  /\ loads = <<>>
  /\ attempts = 0
  /\ lastCall = "none"
  /\ owed = FALSE
  /\ ranOnline = FALSE
  /\ done = NoLoad
  /\ test = NoTest
  /\ testResult = NoResult
  /\ SalesInit
  /\ DBIdle

SalesNext ==
  \/ \E p \in Products : AddToCart(Listed(p))
  \/ \E pm \in PaymentMethods : HandleCheckout(pm)
  \/ \E c \in Customers \cup {NoCustomer} : SelectCustomer(c)
  \/ OfflineEnqueue
  \/ InsertAck
  \/ InsertFail
  \/ CustomerUpdated
  \/ CustomerUpdateThrows
  \/ StockUpdated
  \/ SessionChanges
  \/ EnqueueOffline("customers")
  \/ WentOnline
  \/ WentOffline
  \/ RetrySync
  \/ DrainSubmit
  \/ DrainAck
  \/ DrainFail
  \/ DrainEnd

SalesSpec == SalesPageInit /\ [][SalesNext]_vars

(* ------------- ModernSalesPage: the cart and the sale it makes --------- *)
RemoveFromCart(productId) ==
  /\ cart' = removeFromCart(cart, productId)
  /\ UNCHANGED <<SalesFrame, selectedCustomerId, isProcessingCheckout, checkout,
                 checkoutResult, queue, nextId, applied, written, drain>>

UpdateQuantity(productId, newQuantity) ==
  /\ cart' = updateQuantity(cart, productId, newQuantity)
  /\ UNCHANGED <<SalesFrame, selectedCustomerId, isProcessingCheckout, checkout,
                 checkoutResult, queue, nextId, applied, written, drain>>

ClearCart ==
  /\ cart' = clearCart(cart)
  /\ UNCHANGED <<SalesFrame, selectedCustomerId, isProcessingCheckout, checkout,
                 checkoutResult, queue, nextId, applied, written, drain>>

\* part_001 lines 462-464
RECURSIVE total(_)
total(c) ==
  IF c = <<>> THEN 0 ELSE c[1].sellingPrice * c[1].quantity + total(Tail(c))

\* the payment_details object of lines 593-597 and 663-667
PaymentDetails(paymentMethod, amount) ==
  [cashAmount |-> IF paymentMethod = "cash" THEN amount ELSE 0,
   mpesaAmount |-> IF paymentMethod = "mpesa" THEN amount ELSE 0,
   debtAmount |-> IF paymentMethod = "debt" THEN amount ELSE 0]

\* part_001 lines 581-599: the rows of the batch insert (the timestamp and
\* the fields copied from the product and the customer left out)
salesData(c, paymentMethod, customerId) ==
  [i \in 1..Len(c) |->
     [product_id |-> c[i].id,
      quantity |-> c[i].quantity,
      selling_price |-> c[i].sellingPrice,
      total_amount |-> c[i].sellingPrice * c[i].quantity,
      customer_id |-> customerId,
      payment_method |-> paymentMethod,
      payment_details |-> PaymentDetails(paymentMethod, total(c))]]

\* part_001 lines 651-669: the row passed to createOfflineSale for one item
saleData(item, paymentMethod, customerId) ==
  [product_id |-> item.id,
   quantity |-> item.quantity,
   selling_price |-> item.sellingPrice,
   total_amount |-> item.sellingPrice * item.quantity,
   customer_id |-> customerId,
   payment_method |-> paymentMethod,
   payment_details |-> PaymentDetails(paymentMethod, item.sellingPrice * item.quantity)]

\* part_001 lines 650-672: the rows processOfflineSale enqueues, in order
OfflineRows(c, paymentMethod, customerId) ==
  [i \in 1..Len(c) |-> saleData(c[i], paymentMethod, customerId)]

\* a stock computation without the clamp at zero
newStockUnclamped(item) == item.currentStock - item.quantity

\* part_001 line 634
newStock(item) ==
  IF item.currentStock - item.quantity > 0 THEN item.currentStock - item.quantity ELSE 0

\* part_001 lines 632-638: the updates of products.current_stock, in order
StockWrites(c) ==
  LET tracked == SelectSeq(c, LAMBDA item : item.currentStock > 0)
  IN [i \in 1..Len(tracked) |->
        [id |-> tracked[i].id, current_stock |-> newStock(tracked[i])]]

\* part_001 lines 543-565 and 578-645: a handleCheckout on the online path
\* whose insert and customer update succeed; the stock writes in failed
\* return an error (lines 640-642)
OnlineSale(paymentMethod) ==
  /\ ~CheckoutDisabled(paymentMethod)
  /\ Rejection(paymentMethod) = "none"
  /\ navOnline
  /\ nextId + Len(cart) - 1 <= MaxOps
  /\ \E failed \in SUBSET (1..Len(StockWrites(cart))) :
       sale' = [path |-> "online", items |-> cart,
                paymentMethod |-> paymentMethod, customerId |-> selectedCustomerId,
                rows |-> salesData(cart, paymentMethod, selectedCustomerId),
                stock |-> StockWrites(cart), failed |-> failed,
                result |-> "success"]
  /\ applied' = [id \in 1..MaxOps |->
                   IF id >= nextId /\ id < nextId + Len(cart) THEN 1 ELSE applied[id]]
  /\ nextId' = nextId + Len(cart)
  /\ CheckoutSucceeds
  /\ UNCHANGED <<PageFrame, queue, written, drain>>

\* part_001 lines 543-565 and 647-673: a handleCheckout on the offline path
OfflineSale(paymentMethod) ==
  /\ ~CheckoutDisabled(paymentMethod)
  /\ Rejection(paymentMethod) = "none"
  /\ ~navOnline
  /\ nextId + Len(cart) - 1 <= MaxOps
  /\ sale' = [path |-> "offline", items |-> cart,
              paymentMethod |-> paymentMethod, customerId |-> selectedCustomerId,
              rows |-> OfflineRows(cart, paymentMethod, selectedCustomerId),
              stock |-> <<>>, failed |-> {},
              result |-> "success"]
  /\ queue' = queue \o [i \in 1..Len(cart) |-> [id |-> nextId + i - 1, type |-> "sales"]]
  /\ written' = written \cup (nextId..(nextId + Len(cart) - 1))
  /\ nextId' = nextId + Len(cart)
  /\ CheckoutSucceeds
  /\ UNCHANGED <<PageFrame, applied, drain>>

\* the cart is edited until one sale is made
CartNext ==
  \/ sale = NoSale /\ \E product \in Product : AddToCart(product)
  \/ sale = NoSale /\ \E p \in Products : RemoveFromCart(p)
  \/ sale = NoSale /\ \E p \in Products : \E n \in (-1)..MaxQty : UpdateQuantity(p, n)
  \/ sale = NoSale /\ ClearCart
  \/ sale = NoSale /\ \E c \in Customers \cup {NoCustomer} : SelectCustomer(c)
  \/ sale = NoSale /\ \E pm \in PaymentMethods : OnlineSale(pm)
  \/ sale = NoSale /\ \E pm \in PaymentMethods : OfflineSale(pm)

CartSpec == SalesPageInit /\ [][CartNext]_vars

(* ------------- the controller of "sales" with the reconciler ----------- *)
\* the 'online' event: handleOnline of the controller and the went-online
\* subscriber of the reconciler are both listeners
SyncWentOnline == OnlineListener /\ MonitorOnline /\ UNCHANGED dbVars

\* the drain is over: the reconciler calls refresh() on the controller
\* (spec.md section 4.5, step 2)
SyncDrainEnd ==
  /\ DrainDone
  /\ Commit(Refresh(Cur, user, isOnline, "reconciler"))
  /\ UNCHANGED <<user, navOnline, storageOk, handlerOnline, mirror, test, testResult, dbVars>>

SyncInit ==
  /\ user = TheUser
  /\ storageOk = TRUE
  /\ CtlInit
  /\ SalesInit
  /\ DBIdle

SyncNext ==
  \/ LoadStep
  \/ SyncWentOnline
  \/ HandleOffline
  \/ \E t \in EntityTypes : EnqueueOffline(t)
  \/ RetrySync
  \/ DrainSubmit
  \/ DrainAck
  \/ DrainFail
  \/ SyncDrainEnd

SyncSpec == SyncInit /\ [][SyncNext]_vars

(* ------------------------ the object store alone ----------------------- *)
\* the store holds any records with distinct keys; no controller is mounted
StoreInit ==
  /\ user = NoUser
  /\ navOnline = FALSE
  /\ storageOk \in BOOLEAN
  /\ mirror = {}
  /\ CtlInit
  /\ SalesInit
  /\ objectStore \in {st \in SUBSET Records : \A r, t \in st : r.id = t.id => r = t}
  /\ dbCall = NoCall

StoreNext ==
  \/ \E items \in SeqsUpTo(MaxItems) : OfflineDBSet(items)
  \/ OfflineDBGet
  \/ DBStorageChange

StoreSpec == StoreInit /\ [][StoreNext]_vars

TypeOK ==
  /\ data \in SUBSET Rec
  /\ mirror \in SUBSET Rec
  /\ Len(loads) <= 1

(* ------------------------------- claims -------------------------------- *)
\* the step contains a call of loadData: through refresh, through the
\* initial-load effect or from testOffline
LoadDataCalled ==
  ManualRefresh \/ HandleOnline \/ HandleOffline \/ SignIn \/ SignOut \/ TestOfflineGet

\* C1: at most one load is in flight on a controller; a loadData or refresh
\* call arriving while a load is in flight starts no load and no remote
\* read and leaves the mirror and the served state (data, loading, error,
\* lastSyncTime) as they are, so overlapping calls make one remote read.
C1_SingleLoadInFlight ==
  [][/\ Len(loads') <= 1
     /\ attempts' <= 1
     /\ (loadingRef /\ LoadDataCalled) =>
          UNCHANGED <<loads, attempts, mirror, data, loading, error,
                      lastSyncTime, initializationRef, loadingRef>>]_vars

\* a refresh was skipped while the first load had its remote read pending
C1_Witness ==
  /\ lastCall = "skipped"
  /\ Len(loads) = 1
  /\ loads[1].pc = "remote"
  /\ attempts = 1

QueuedCount(id) == Cardinality({i \in 1..Len(queue) : queue[i].id = id})

Queued(q, id) == \E i \in 1..Len(q) : q[i].id = id

C6_RemovedIffAcknowledged ==
  [][\A i \in 1..Len(queue) :
       ~Queued(queue', queue[i].id) <=> (applied'[queue[i].id] = applied[queue[i].id] + 1)]_vars

\* one operation was acknowledged and removed, the one whose submission
\* failed is still queued
C6_Witness ==
  /\ drain.halted # {}
  /\ \E id \in 1..MaxOps : applied[id] = 1 /\ ~Queued(queue, id) /\ id \in written
  /\ \E i \in 1..Len(queue) : queue[i].type \in drain.halted /\ applied[queue[i].id] = 0

\* the queue holds its operations in the order of their enqueue
InEnqueueOrder(q) == \A i, j \in 1..Len(q) : i < j => q[i].id < q[j].id

\* C7: the queue is never reordered; drain submits the earliest queued
\* operation whose entity type has not failed in this drain; a failed
\* submission removes nothing and halts the entity type, whose operations
\* all stay queued until the drain is over; a drain without a failed
\* submission ends with the queue empty.
C7_FifoDrain ==
  [][/\ InEnqueueOrder(queue')
     /\ (drain.op = 0 /\ drain'.op # 0) =>
          /\ Queued(queue, drain'.op)
          /\ TypeOf(queue, drain'.op) \notin drain.halted
          /\ \A i \in 1..Len(queue) :
               queue[i].id < drain'.op => queue[i].type \in drain.halted
     /\ (drain.pc = "wait" /\ drain'.pc = "run" /\ applied' = applied) =>
          /\ queue' = queue
          /\ TypeOf(queue, drain.op) \in drain'.halted
     /\ \A i \in 1..Len(queue) :
          (drain.pc # "idle" /\ queue[i].type \in drain.halted) =>
             Queued(queue', queue[i].id)
     /\ (drain.pc = "run" /\ drain'.pc = "idle" /\ drain.halted = {}) =>
          queue = <<>>]_vars

\* A, B, C were enqueued, the drain failed on A and left [A, B, C]
C7_Witness ==
  /\ drain.pc = "idle"
  /\ drain.ran
  /\ drain.halted = {"sales"}
  /\ Len(queue) = 3
  /\ \A i \in 1..3 : queue[i].id = i /\ queue[i].type = "sales"

\* C8: while the queue still holds operations, the remote read of a
\* controller's reconnect refresh is not in flight unless the drain is over.
C8_RefreshAfterDrain ==
  \A i \in 1..Len(loads) :
    (loads[i].from = "online" /\ loads[i].remote = "pending" /\ queue # <<>>) =>
       drain.pc = "idle"

\* C9: after an offline-to-online transition with a user authenticated the
\* controller attempts a remote read: it never comes to rest (no load in
\* flight, nothing scheduled) while the reconnect read is still owed.
C9_ReconnectRefresh ==
  (owed /\ user = TheUser /\ navOnline) => loadingRef

\* C10: while no user is authenticated the controller serves no records
\* and is not loading.
C10_SignedOutServesNothing ==
  user = NoUser => (data = {} /\ ~loading)

\* the first load of the controller, made with isOnline = false over an
\* empty mirror, completes in this step with its read of the mirror resolved
FirstLoadOfflineEmptyCompletes ==
  /\ Len(loads) = 1
  /\ loads[1].pc = "cache"
  /\ ~loads[1].online
  /\ ~initializationRef
  /\ lastSyncTime = 0
  /\ mirror = {}
  /\ storageOk
  /\ done'.pc = "done"

\* C11: a first-ever load made offline over an empty mirror leaves in the
\* returned state a condition of its own: not the error of a failed load,
\* and not the empty data without error that a successful load of an empty
\* table leaves.
C11_NoDataAvailable ==
  [][FirstLoadOfflineEmptyCompletes =>
       /\ error' # LoadError
       /\ ~(data' = {} /\ error' = NoError)]_vars

\* C12: the first non-forced loadData that runs with isOnline = true for an
\* authenticated user attempts a remote read, whatever loads ran before it.
C12_OneAuthoritativeFetch ==
  \A i \in 1..Len(loads) : loads[i].first => loads[i].remote # "none"

\* C13: every step that changes the mirror is the put of a load whose
\* remote read was confirmed, and every put that resolves leaves the
\* mirror equal to exactly the set that this one remote read returned; so
\* the mirror always holds its initial content or a single remote snapshot.
C13_MirrorIsOneSnapshot ==
  [][/\ mirror' # mirror =>
          \E i \in 1..Len(loads) :
             /\ loads[i].pc = "set"
             /\ loads[i].remote = "ok"
             /\ mirror' = loads[i].res
     /\ (done' # done /\ done'.pc = "done" /\ done'.result = "synced") =>
          mirror' = done'.res]_vars

\* a second put replaced the snapshot that the first one had written
C13_Witness ==
  /\ done.pc = "done"
  /\ done.result = "synced"
  /\ mirror = done.res
  /\ done.old # done.res
  /\ lastSyncTime = 2

\* C14: a set of the items X, whose ids are unique, followed by a get
\* returns exactly the records of X whatever the store held before, and a
\* second set of X leaves the store as the first one left it.
C14_IdempotentReplace ==
  (dbCall.op = "get" /\ dbCall.set /\ dbCall.ok /\ UniqueIds(dbCall.items)) =>
     /\ dbCall.result = Elements(dbCall.items)
     /\ DBSetAll(objectStore, dbCall.items) = objectStore

\* a set over a store that held other records, then a get
C14_Witness ==
  /\ dbCall.op = "get"
  /\ dbCall.set
  /\ dbCall.ok
  /\ Len(dbCall.items) = 2
  /\ UniqueIds(dbCall.items)
  /\ dbCall.before \ Elements(dbCall.items) # {}
  /\ dbCall.result = Elements(dbCall.items)

\* C15: a load whose remote read returned S while the put and the getAll of
\* the Local Durable Store failed completes serving S.
C15_MemoryOnlyDegradation ==
  (done.pc = "done" /\ done.remote = "ok" /\ done.result = "error") =>
     data = done.res

\* C16: when the insert of an online checkout fails, the checkout ends as
\* a failure shown to the caller, nothing is added to the Pending Write
\* Queue and no sale row is recorded.
C16_RejectedSaleNotEnqueued ==
  [][(checkout.pc = "insert" /\ checkout'.pc = "idle") =>
       /\ checkoutResult' = "failed"
       /\ ~isProcessingCheckout'
       /\ queue' = queue
       /\ applied' = applied]_vars

\* an online checkout was rejected while an earlier offline operation was
\* queued: the queue still holds that one operation only
C16_Witness ==
  /\ checkoutResult = "failed"
  /\ checkout.pc = "idle"
  /\ navOnline
  /\ Len(queue) = 1
  /\ nextId = 2
  /\ cart # <<>>
  /\ \A id \in 1..MaxOps : applied[id] = 0

\* C17: the load that testOffline runs attempts no remote read, and no
\* step of that load changes the mirror.
C17_SelfTestStaysOffline ==
  [][/\ \A i \in 1..Len(loads') : loads'[i].from = "test" => loads'[i].remote = "none"
     /\ (\E i \in 1..Len(loads) : loads[i].from = "test") => mirror' = mirror]_vars

\* testOffline returned the result of lines 270-278 (success: true), the
\* only one that carries the observed cache size
TestPassed == "cacheSize" \in DOMAIN testResult

\* C18: testOffline reports a pass only if the mirror it read was not
\* empty and the load path ran; it does not pass over an empty mirror, nor
\* when loadData returned at the in-flight guard or at the no-user guard.
C18_SelfTestPassMeansData ==
  TestPassed =>
     (testResult.cacheSize > 0 /\ testResult.loaded)

\* C19: once a load has completed without throwing (initializationRef is
\* set), a load in flight that attempts a remote read is a forced one; a
\* non-forced load reads the Local Durable Store only and serves it.
C19_LaterLoadsServeCache ==
  /\ \A i \in 1..Len(loads) :
       (initializationRef /\ ~loads[i].force) =>
          (loads[i].remote = "none" /\ loads[i].pc \in {"cache", "last"})
  /\ (done.pc = "done" /\ initializationRef /\ ~done.force /\ done.result = "cached") =>
       (done.remote = "none" /\ data = mirror)

\* an initialised controller, online, runs a non-forced load from the cache
C19_Witness ==
  /\ initializationRef
  /\ navOnline
  /\ Len(loads) = 1
  /\ ~loads[1].force
  /\ loads[1].online
  /\ loads[1].pc = "cache"
  /\ loads[1].remote = "none"

\* the step contains calls of loadData, all of them through closures that
\* hold no user
LoadDataCalledWithoutUser ==
  \/ SignOut /\ ~initializationRef
  \/ ManualRefresh /\ user = NoUser
  \/ HandleOnline /\ ~isOnline /\ user = NoUser /\ ~initializationRef
  \/ HandleOffline /\ isOnline /\ user = NoUser /\ ~initializationRef
  \/ TestOfflineGet /\ storageOk /\ test.user = NoUser /\ user = NoUser

\* what the no-user branch of loadData sets and what it leaves alone
NoUserEffect ==
  /\ data' = {}
  /\ ~loading'
  /\ error' = NoError
  /\ loads' = loads
  /\ attempts' = attempts
  /\ mirror' = mirror
  /\ lastSyncTime' = lastSyncTime
  /\ loadingRef' = loadingRef
  /\ initializationRef' = initializationRef

C21_SyncTimeOnlyOnSync ==
  [][lastSyncTime' # lastSyncTime =>
       \E i \in 1..Len(loads) :
          /\ loads[i].pc = "set"
          /\ loads[i].remote = "ok"
          /\ storageOk
          /\ mirror' = loads[i].res
          /\ done'.pc = "done"
          /\ done'.result = "synced"]_vars

\* after a sync, a load whose remote read succeeded but whose write to the
\* mirror failed completed and left the timestamp of the earlier sync
C21_Witness ==
  /\ done.pc = "done"
  /\ done.remote = "ok"
  /\ done.result = "fallback"
  /\ lastSyncTime = 1

\* the step contains a call of refresh() made while the controller's
\* isOnline is true, a user is authenticated and no load is in flight
RefreshCalledOnline ==
  /\ ManualRefresh \/ HandleOnline
  /\ isOnline
  /\ user # NoUser
  /\ ~loadingRef

\* C22: refresh() called while the controller is online, a user is
\* authenticated and no load is in flight starts a forced load that
\* attempts a remote read.
C22_RefreshReadsRemote ==
  [][RefreshCalledOnline =>
       /\ Len(loads') = 1
       /\ loads'[1].force
       /\ loads'[1].remote = "pending"]_vars

\* C23: a checkout that ends with the failure toast has recorded nothing:
\* it has inserted no sale row and enqueued no Pending Operation.
C23_FailedCheckoutRecordsNothing ==
  [][(checkout.pc # "idle" /\ checkout'.pc = "idle" /\ checkoutResult' = "failed") =>
       /\ checkout.rows = {}
       /\ queue' = queue
       /\ applied' = applied]_vars

\* C24: every load that starts finishes and releases the in-flight flag:
\* while the flag is set loading is true and the load is the one suspended
\* invocation, whose pending call can return (with success or with failure);
\* the step in which it runs its finally block leaves loading = false and
\* the flag clear, so that the next loadData is accepted.
C24_LoadsFinish ==
  /\ [](loadingRef => (loading /\ Len(loads) = 1 /\ ENABLED LoadStep))
  /\ [][Len(loads') < Len(loads) =>
          (~loading' /\ ~loadingRef' /\ loads' = <<>>)]_vars

C24_Witness ==
  /\ done.pc = "done" /\ done.result = "error"
  /\ ~loading /\ ~loadingRef /\ loads = <<>>

\* C25: whenever no testOffline is running, isOnline equals the connectivity
\* the platform reported last (also when online or offline events arrived
\* while a testOffline was running).
C25_OnlineFlagFollowsPlatform == test.pc = "idle" => isOnline = navOnline

\* C26: a checkout takes exactly one path, chosen when handleCheckout is
\* called.  Online: its steps insert one sale row per cart item in the
\* remote system and enqueue nothing.  Offline: each of its steps enqueues
\* one Pending Operation, for the cart items in cart order, one per item,
\* and writes nothing to the remote system.
C26_ExactlyOnePath ==
  [][/\ (checkout.pc = "idle" /\ checkout'.pc # "idle") =>
          /\ checkout'.online = navOnline
          /\ checkout'.pc = (IF navOnline THEN "insert" ELSE "enqueue")
          /\ queue' = queue /\ applied' = applied
     /\ (checkout.pc # "idle" /\ checkout' # checkout) =>
          IF checkout.online
            THEN /\ queue' = queue /\ written' = written
                 /\ checkout.pc # "enqueue"
                 /\ applied' # applied =>
                      /\ checkout.pc = "insert"
                      /\ Cardinality(checkout'.rows) = Len(checkout.items)
                      /\ \A id \in 1..MaxOps :
                           applied'[id] = IF id \in checkout'.rows
                                            THEN applied[id] + 1 ELSE applied[id]
            ELSE /\ applied' = applied
                 /\ checkout.pc = "enqueue"
                 /\ queue' = Append(queue, [id |-> nextId, type |-> "sales"])
                 /\ IF checkout'.pc = "idle"
                      THEN checkout.k = Len(checkout.items)
                      ELSE checkout'.pc = "enqueue" /\ checkout'.k = checkout.k + 1]_vars

C26_Witness ==
  /\ checkoutResult = "success" /\ cart = <<>>
  /\ Len(queue) = 2 /\ written = {1, 2}
  /\ applied[1] = 0 /\ applied[2] = 0 /\ applied[3] = 1

\* C27: handleCheckout called with an empty cart, with payment method 'debt'
\* and no selected customer, or with no authenticated user makes no remote
\* write and no enqueue and leaves the cart, the selected customer and the
\* processing flag unchanged.
C27_RejectedCheckoutChangesNothing ==
  [][\A pm \in PaymentMethods :
       (/\ HandleCheckout(pm)
        /\ \/ cart = <<>>
           \/ (pm = "debt" /\ selectedCustomerId = NoCustomer)
           \/ user = NoUser) =>
         /\ applied' = applied /\ nextId' = nextId
         /\ queue' = queue /\ written' = written
         /\ cart' = cart
         /\ selectedCustomerId' = selectedCustomerId
         /\ isProcessingCheckout' = isProcessingCheckout
         /\ checkout' = checkout]_vars

C27_Witness ==
  /\ checkoutResult = "Customer Required"
  /\ cart # <<>> /\ selectedCustomerId = NoCustomer
  /\ ~isProcessingCheckout /\ checkout = NoCheckout

\* C28: the stock written by an online sale is never negative and untracked
\* stock is never touched: a cart item with currentStock > 0 gets one write
\* of max(0, currentStock - quantity), an item with currentStock <= 0 gets
\* none, and the sale succeeds whichever stock writes fail.
C28_StockNeverNegative ==
  sale.path = "online" =>
    /\ sale.result = "success" /\ checkoutResult = "success"
    /\ \A w \in 1..Len(sale.stock) : sale.stock[w].current_stock >= 0
    /\ \A i \in 1..Len(sale.items) :
         LET item == sale.items[i]
             writes == {w \in 1..Len(sale.stock) : sale.stock[w].id = item.id}
         IN IF item.currentStock > 0
              THEN /\ Cardinality(writes) = 1
                   /\ \A w \in writes :
                        sale.stock[w].current_stock =
                          IF item.currentStock >= item.quantity
                            THEN item.currentStock - item.quantity ELSE 0
              ELSE writes = {}

\* an online sale of an item sold beyond its stock and of an untracked item,
\* one of whose stock writes failed
C28_Witness ==
  /\ sale.path = "online" /\ sale.failed # {}
  /\ \E i \in 1..Len(sale.items) :
       sale.items[i].currentStock > 0 /\ sale.items[i].currentStock < sale.items[i].quantity
  /\ \E i \in 1..Len(sale.items) : sale.items[i].currentStock <= 0

\* C29: for the same cart, customer and payment method the online path and
\* the offline path produce the same sale rows, and in every row the
\* payment_details amounts sum to the row's total_amount.
C29_SameRowsOnBothPaths ==
  sale.path # "none" =>
    /\ salesData(sale.items, sale.paymentMethod, sale.customerId)
         = OfflineRows(sale.items, sale.paymentMethod, sale.customerId)
    /\ \A i \in 1..Len(sale.rows) :
         LET d == sale.rows[i].payment_details
         IN d.cashAmount + d.mpesaAmount + d.debtAmount = sale.rows[i].total_amount

\* C30: after any sequence of addToCart, updateQuantity, removeFromCart and
\* clearCart the cart holds at most one entry per product id and every
\* entry has quantity >= 1; updateQuantity with a quantity <= 0 removes the
\* entry, and addToCart of a product already in the cart increments its
\* quantity by 1 instead of adding an entry.
C30_CartWellFormed ==
  /\ \A i, j \in 1..Len(cart) : cart[i].id = cart[j].id => i = j
  /\ \A i \in 1..Len(cart) : cart[i].quantity >= 1
  /\ \A p \in Products : \A n \in (-1)..0 : ~InCart(updateQuantity(cart, p, n), p)
  /\ \A product \in Product :
       InCart(cart, product.id) =>
         LET c == addToCart(cart, product)
         IN /\ Len(c) = Len(cart)
            /\ \A i \in 1..Len(cart) :
                 /\ c[i].id = cart[i].id
                 /\ c[i].quantity = cart[i].quantity
                                      + (IF cart[i].id = product.id THEN 1 ELSE 0)

\* two products in the cart, the first with its quantity incremented
C30_Witness ==
  /\ Len(cart) = 2
  /\ cart[1].quantity = 2 /\ cart[2].quantity = 1
  /\ cart[1].id # cart[2].id

=============================================================================
